---- MODULE Spec2Model ----
(***************************************************************************)
(* Pagination loops of the pydanticai-tools wrappers:                      *)
(*   BraveSearchTool.web_search              (src/tools/brave_tool.py)     *)
(*   GoogleCalendarTool.list_calendars,                                    *)
(*   GoogleCalendarTool.list_calendar_events (src/tools/google/...)        *)
(*   YouTubeTool.search_channel, search_playlist, search_videos,           *)
(*   get_video_info, get_channel_videos      (src/tools/youtube/...)       *)
(*                                                                         *)
(* One call is modelled at a time.  A call issues a page request and       *)
(* waits (pc = "wait"); the paged source answers with a page or a failure; *)
(* the handler of the answer runs the rest of the loop body, the loop      *)
(* test, and either issues the next request or returns.                    *)
(***************************************************************************)
EXTENDS Integers, Sequences, FiniteSets, TLC

VARIABLES
    op,                 \* the operation being called ("none" before the call)
    pc,                 \* "idle" | "wait" | "wait_channel" | "done"
    count,              \* web_search: argument count
    offset,             \* web_search: argument offset
    target,             \* total_results / limit_total_results / max_results argument
    acc,                \* all_results / all_calendars / all_events / lst
    next_page_token,    \* Calendar and YouTube loops (None = 0)
    results_count,      \* Calendar loops
    current_offset,     \* web_search
    remaining_results,  \* web_search
    combined_results,   \* web_search: the stored response envelope
    total_results,      \* YouTube loops: local total_results
    uploads_playlist_id,\* get_channel_videos
    result,             \* what the call returned or raised
    req,                \* the request in flight (the last one issued)
    nreq,               \* requests issued to the source by this call (saturates at MaxReq)
    inflight,           \* requests issued and not yet answered
    text,               \* the text of the page get_page_content received
    fetched,            \* raw items of all pages received, in arrival order
    avail,              \* number of items the source holds
    conforms,           \* the source has answered every request as a well-behaved source
    shortSeen,          \* some page held fewer items than were requested for it
    overSeen,           \* some page held more items than were requested for it
    failed,             \* a request of this call failed
    firstMeta,          \* metadata value of the first page response (0: none yet)
    lastMeta,           \* metadata value of the latest page response (0: none yet)
    lastTok,            \* continuation token of the latest page response
    lastLookup,         \* uploads playlist id the latest channel lookup returned
    service,            \* the GoogleCalendarTool instance of the call has a service
    \* two web_search calls running on one BraveSearchTool instance
    self,               \* the instance: api_key, base_url, headers
    calls,              \* per call: position, arguments, request in flight, pages received, result
    frames,             \* per call frame: all_results, current_offset, remaining_results, combined_results
    overlapped          \* a call received a page while the other call was between two of its pages

\* the state of the single call
solo == <<op, pc, count, offset, target, acc, next_page_token, results_count,
          current_offset, remaining_results, combined_results, total_results,
          uploads_playlist_id, result, req, nreq, inflight, text, fetched, avail,
          conforms, shortSeen, overSeen, failed, firstMeta, lastMeta, lastTok,
          lastLookup, service>>

\* the state of the two concurrent calls and of their instance
shared == <<self, calls, frames, overlapped>>

vars == <<solo, shared>>

----------------------------------------------------------------------------
(* Bounds of the model *)

\* nreq counts requests up to MaxReq and then stays there
MaxReq == 6
\* a page may hold up to MaxExtra items more than were requested
MaxExtra == 1
\* most items in one Exa response
MaxItems == 3
\* most characters in a scraped page
MaxText == 3

(* Program constants *)

\* brave_tool.py:83  api_count = min(count, 20)
BraveMaxCount == 20
\* brave_tool.py:150  if current_offset >= 9: break
BraveMaxOffset == 9
\* calendar_tools.py:129/213  min(250, limit_total_results - results_count)
CalendarMaxResults == 250
\* youtube_tools.py:156  min(50, max_results - len(lst))
YouTubeMaxResults == 50

None == 0
Tokens == {1, 2}
Metas == {1, 2}
PlaylistIds == {1, 2}

(* Inputs *)
BraveCounts == {-1, 0, 1, 4, 20, 25}
BraveOffsets == {0, 5, 10}
BraveTargets == {-1, 0, 1, 5, 21, 30, 100}
CalendarTargets == {-1, 0, 1, 3, 251}
YouTubeTargets == {-1, 0, 1, 3, 51}
AvailSet == {0, 2, 300}

----------------------------------------------------------------------------
(* Helpers *)

Min(a, b) == IF a <= b THEN a ELSE b
Max(a, b) == IF a >= b THEN a ELSE b

\* Python s[:n]
PySlice(s, n) ==
    IF n >= 0 THEN SubSeq(s, 1, Min(n, Len(s)))
              ELSE SubSeq(s, 1, Max(Len(s) + n, 0))

\* list.extend
Extend(s, t) == s \o t

\* a raw item; `missing` names the keys it lacks
RawItem(i) == [kind |-> "raw", id |-> i, missing |-> {}]

\* a raw item without the keys in `missing`
SparseItem(i, missing) == [kind |-> "raw", id |-> i, missing |-> missing]

\* a raw item the record constructor rejects: a required key or attribute is
\* missing or holds None
BadItem(i) == [kind |-> "bad", id |-> i, missing |-> {}]

\* the record constructor accepts the raw item
Maps(item) == item.kind = "raw"

\* a page response; web: "ok" ('web' with 'results'), "noresults" ('web' without
\* 'results'), "none" (no 'web' key); only web_search reads it
Page(n, tok, meta, web) ==
    [n |-> n, tok |-> tok, meta |-> meta, web |-> web, bad |-> 0, missing |-> {}]

\* a page response whose first item is one the record constructor rejects
BadPage(n, tok, meta) ==
    [n |-> n, tok |-> tok, meta |-> meta, web |-> "ok", bad |-> 1, missing |-> {}]

\* a page of web results whose first result lacks the keys in `missing`
SparsePage(n, meta, missing) ==
    [n |-> n, tok |-> None, meta |-> meta, web |-> "ok", bad |-> 0, missing |-> missing]

\* the items of a page response, numbered on from the `from` received before it
ItemsFrom(from, page) ==
    [i \in 1..page.n |-> IF i = page.bad THEN BadItem(from + i)
                         ELSE IF i = 1 THEN SparseItem(from + i, page.missing)
                         ELSE RawItem(from + i)]

Items(page) == ItemsFrom(Len(fetched), page)

\* page lengths the source may answer a request for `size` items with: none, one
\* fewer, as many, more than requested, and what a source that serves all it
\* still holds would send
PageLens(size) ==
    {n \in {0, size - 1, size, size + MaxExtra, Min(Max(size, 0), avail - Len(fetched))} : n >= 0}

NoRequest == [kind |-> "none", size |-> 0, offset |-> 0, token |-> None, playlist |-> None]
NoResult == [kind |-> "none", records |-> <<>>, total_results |-> 0]
Unbound == [bound |-> FALSE, web |-> "none", meta |-> 0]

Raised == [kind |-> "raise", records |-> <<>>, total_results |-> 0]
ErrorString == [kind |-> "errstr", records |-> <<>>, total_results |-> 0]

\* return 'service not created'
ServiceNotCreated == [kind |-> "service not created", records |-> <<>>, total_results |-> 0]
\* return None
ReturnedNone == [kind |-> "None", records |-> <<>>, total_results |-> 0]

Bump(n) == IF n < MaxReq THEN n + 1 ELSE n

\* brave_tool.py:19-24: the fields __init__ sets
Instance == [api_key |-> "key", base_url |-> "url", headers |-> {"User-Agent"}]

\* the two calls made on the instance
Calls == {1, 2}

NoPageRequest == [size |-> 0, offset |-> 0, url |-> "", headers |-> {}, token |-> ""]
NotCalled == [pc |-> "idle", count |-> 0, offset |-> 0, target |-> 0,
              req |-> NoPageRequest, pages |-> <<>>, result |-> NoResult]
NoFrame == [all_results |-> <<>>, current_offset |-> 0, remaining_results |-> 0,
            combined_results |-> Unbound]

----------------------------------------------------------------------------
Init ==
    /\ op = "none"
    /\ pc = "idle"
    /\ count = 0
    /\ offset = 0
    /\ target = 0
    /\ acc = <<>>
    /\ next_page_token = None
    /\ results_count = 0
    /\ current_offset = 0
    /\ remaining_results = 0
    /\ combined_results = Unbound
    /\ total_results = 0
    /\ uploads_playlist_id = None
    /\ result = NoResult
    /\ req = NoRequest
    /\ nreq = 0
    /\ inflight = 0
    /\ text = <<>>
    /\ fetched = <<>>
    /\ avail \in AvailSet
    /\ conforms = TRUE
    /\ shortSeen = FALSE
    /\ overSeen = FALSE
    /\ failed = FALSE
    /\ firstMeta = 0
    /\ lastMeta = 0
    /\ lastTok = None
    /\ lastLookup = None
    /\ service = TRUE
    /\ self = Instance
    /\ calls = [c \in Calls |-> NotCalled]
    /\ frames = [c \in Calls |-> NoFrame]
    /\ overlapped = FALSE

----------------------------------------------------------------------------
(* The call's exchange with the source *)

\* the requests still unanswered once the step has taken the answer it handles
Answered == IF pc \in {"wait", "wait_channel"} THEN inflight - 1 ELSE inflight

\* the request goes out together with the one that would follow it
IssueAhead(kind, size, off, tok) ==
    /\ pc' = IF kind = "channel" THEN "wait_channel" ELSE "wait"
    /\ req' = [kind |-> kind, size |-> size, offset |-> off, token |-> tok,
               playlist |-> None]
    /\ nreq' = Bump(nreq)
    /\ inflight' = Answered + 2
    /\ result' = result
    /\ UNCHANGED shared

\* a request goes out; the call waits for the answer
Issue(kind, size, off, tok) ==
    /\ pc' = IF kind = "channel" THEN "wait_channel" ELSE "wait"
    /\ req' = [kind |-> kind, size |-> size, offset |-> off, token |-> tok,
               playlist |-> None]
    /\ nreq' = Bump(nreq)
    /\ inflight' = Answered + 1
    /\ result' = result
    /\ UNCHANGED shared

\* a playlistItems().list request for the items of `playlist` goes out
IssuePlaylistItems(size, tok, playlist) ==
    /\ pc' = "wait"
    /\ req' = [kind |-> "page", size |-> size, offset |-> 0, token |-> tok,
               playlist |-> playlist]
    /\ nreq' = Bump(nreq)
    /\ inflight' = Answered + 1
    /\ result' = result
    /\ UNCHANGED shared

\* the call ends with outcome r
Return(r) ==
    /\ pc' = "done"
    /\ result' = r
    /\ inflight' = Answered
    /\ UNCHANGED <<req, nreq>>
    /\ UNCHANGED shared

\* the source under the claims' assumptions: an offset source serves full pages
\* until it is exhausted; a token source never serves more than requested and
\* hands out a continuation token exactly when items remain
WellBehaved(o, page, size) ==
    LET served == Len(fetched) + page.n IN
    IF o = "web_search"
    THEN page.web = "ok" /\ page.n = Min(Max(size, 0), avail - Len(fetched))
    ELSE /\ page.bad = 0
         /\ page.n <= Max(size, 0)
         /\ served <= avail
         /\ (page.tok # None) <=> (served < avail)

\* what the model remembers of a page answer to a request for `size` items
Observe(page, size) ==
    /\ fetched' = fetched \o Items(page)
    /\ conforms' = (conforms /\ WellBehaved(op, page, size))
    /\ shortSeen' = (shortSeen \/ page.n < size)
    /\ overSeen' = (overSeen \/ page.n > size)
    /\ firstMeta' = IF firstMeta = 0 THEN page.meta ELSE firstMeta
    /\ lastMeta' = page.meta
    /\ lastTok' = page.tok
    /\ UNCHANGED <<avail, failed, text, lastLookup, service>>

NoObserve ==
    UNCHANGED <<fetched, avail, conforms, shortSeen, overSeen, failed, firstMeta, lastMeta, lastTok,
                lastLookup, service,
                text>>

\* the request in flight fails: transport, auth or quota error
ObserveFailure ==
    /\ failed' = TRUE
    /\ UNCHANGED <<fetched, avail, conforms, shortSeen, overSeen, firstMeta, lastMeta, lastTok,
                   lastLookup, service, text>>

----------------------------------------------------------------------------
(* BraveSearchTool.web_search *)

api_count(c) == Min(c, BraveMaxCount)

\* every batch asks for api_count results, whatever remains
batch_count_full(c, remaining) == api_count(c)

batch_count(c, remaining) == Min(api_count(c), remaining)

\* the keys of a raw web result that web_search reads
WebKeys == {"title", "url", "is_source_local", "description", "page_age", "sub_type", "age"}

\* the key sets a sparse result may lack
MissingSets == {WebKeys, {"title", "is_source_local", "sub_type"}}

\* the value a raw result holds under a key it has
Value(r, key) == IF key = "is_source_local" THEN TRUE ELSE key

\* every missing string falls back to ''
GetEmpty(r, key, default) ==
    IF key \in r.missing THEN (IF key = "is_source_local" THEN FALSE ELSE "")
    ELSE Value(r, key)

\* result.get(key, default)
Get(r, key, default) == IF key \in r.missing THEN default ELSE Value(r, key)

\* lines 160-168: WebResult(title=result.get('title', ''), ...)
WebResult(r) ==
    [kind |-> "WebResult", id |-> r.id,
     title |-> Get(r, "title", ""),
     url |-> Get(r, "url", ""),
     is_source_local |-> Get(r, "is_source_local", FALSE),
     description |-> Get(r, "description", ""),
     page_age |-> Get(r, "page_age", ""),
     sub_type |-> Get(r, "sub_type", "generic"),
     age |-> Get(r, "age", "")]

\* combined_results['web']['results'] = all_results[:total_results]
BraveTruncate(all, t) == PySlice(all, t)

\* lines 153-171: the value web_search returns, or the exception it ends with
BraveReturn(all, combined, t) ==
    IF ~combined.bound THEN Raised                 \* UnboundLocalError, line 154
    ELSE IF combined.web = "none" THEN Raised      \* KeyError 'web', line 159
    ELSE [kind |-> "ok",
          records |-> [i \in DOMAIN BraveTruncate(all, t) |-> WebResult(BraveTruncate(all, t)[i])],
          total_results |-> 0]

\* line 129: if current_offset == offset: combined_results = batch_results
Combined(cur, off, old, page) ==
    IF cur = off
    THEN [bound |-> TRUE, web |-> page.web, meta |-> page.meta]
    ELSE old

\* line 129: the envelope kept after a response arrived at offset `cur`
BraveCombined(cur, page) == Combined(cur, offset, combined_results, page)

\* the offset advancing by one per page
NextOffsetByPage(cur, fetched_count) == cur + 1

\* line 140: current_offset += fetched_count
NextOffset(cur, fetched_count) == cur + fetched_count

\* the breaks without the short-batch test of line 143
BraveBreakAtOffset(fetched_count, batch, new_offset) ==
    new_offset >= BraveMaxOffset

\* lines 143-151: the breaks after a batch with web results
BraveBreak(fetched_count, batch, new_offset) ==
    \/ fetched_count < batch
    \/ new_offset >= BraveMaxOffset

\* line 91 and what follows it: the loop test, then the next request or the return
BraveLoop(c, t, all, cur, remaining, combined) ==
    IF remaining > 0
    THEN Issue("page", batch_count(c, remaining), cur, None)
    ELSE Return(BraveReturn(all, combined, t))

web_search_Call(c, o, t) ==
    /\ pc = "idle"
    /\ op' = "web_search"
    /\ count' = c
    /\ offset' = o
    /\ target' = t
    /\ acc' = <<>>
    /\ current_offset' = o
    /\ remaining_results' = t
    /\ BraveLoop(c, t, <<>>, o, t, combined_results)
    /\ NoObserve
    /\ UNCHANGED <<next_page_token, results_count, combined_results, total_results,
                   uploads_playlist_id>>

web_search_Response(page) ==
    /\ op = "web_search"
    /\ pc = "wait"
    /\ LET batch == batch_count(count, remaining_results)
           combined == BraveCombined(current_offset, page)
           hasWeb == page.web = "ok"
           batch_web_results == Items(page)
           fetched_count == Len(batch_web_results)
           all == IF hasWeb THEN Extend(acc, batch_web_results) ELSE acc
           remaining == IF hasWeb THEN remaining_results - fetched_count
                                  ELSE remaining_results
           cur == IF hasWeb THEN NextOffset(current_offset, fetched_count)
                            ELSE current_offset
       IN /\ combined_results' = combined
          /\ acc' = all
          /\ remaining_results' = remaining
          /\ current_offset' = cur
          /\ IF ~hasWeb \/ BraveBreak(fetched_count, batch, cur)
             THEN Return(BraveReturn(all, combined, target))
             ELSE BraveLoop(count, target, all, cur, remaining, combined)
    /\ Observe(page, req.size)
    /\ UNCHANGED <<op, count, offset, target, next_page_token, results_count,
                   total_results, uploads_playlist_id>>

\* the failed request is sent again
web_search_Retry ==
    /\ op = "web_search"
    /\ pc = "wait"
    /\ Issue("page", req.size, req.offset, None)
    /\ ObserveFailure
    /\ UNCHANGED <<op, count, offset, target, acc, next_page_token, results_count,
                   current_offset, remaining_results, combined_results, total_results,
                   uploads_playlist_id>>

\* line 119/125: client.get or raise_for_status raises; nothing catches it
web_search_Fail ==
    /\ op = "web_search"
    /\ pc = "wait"
    /\ Return(Raised)
    /\ ObserveFailure
    /\ UNCHANGED <<op, count, offset, target, acc, next_page_token, results_count,
                   current_offset, remaining_results, combined_results, total_results,
                   uploads_playlist_id>>

\* the pages the Brave endpoint may answer the request in flight with
BravePages ==
    {Page(n, None, m, "ok") : n \in PageLens(req.size), m \in Metas}
        \cup {Page(0, None, m, w) : m \in Metas, w \in {"none", "noresults"}}
        \cup {SparsePage(n, 1, missing) :
                  n \in IF fetched = <<>> THEN PageLens(req.size) \cap (1..req.size) ELSE {},
                  missing \in MissingSets}

----------------------------------------------------------------------------
(* GoogleCalendarTool.list_calendars and list_calendar_events *)

\* always a full page, whatever is still wanted
CalendarFullPage(limit, counted) == CalendarMaxResults

\* 'maxResults': min(250, limit_total_results - results_count)
CalendarPageSize(limit, counted) == Min(CalendarMaxResults, limit - counted)

\* the service taken to be there
AssumeService(svc) == TRUE

\* if not self.service
HasService(svc) == svc

\* the history left as it is by a step that receives no page
NoPage ==
    UNCHANGED <<fetched, avail, conforms, shortSeen, overSeen, failed, firstMeta, lastMeta,
                lastTok, lastLookup, text>>

\* the loop left only above the limit
CalendarBreakAbove(counted, limit) == counted > limit

\* if results_count >= limit_total_results: break
CalendarBreak(counted, limit) == counted >= limit

Calendar(c) == [kind |-> "Calendar", id |-> c.id]

\* lines 158-172: Calendars(calendars=all_calendars_cleaned); calendar['id'] or
\* calendar['summary'] of an item without the key raises KeyError inside the
\* try, and the handler returns str(e)
ListCalendarsReturn(all) ==
    IF \A i \in DOMAIN all : Maps(all[i])
    THEN [kind |-> "ok", records |-> [i \in DOMAIN all |-> Calendar(all[i])],
          total_results |-> 0]
    ELSE ErrorString

\* list_calendar_events without its slice
EventsKeepAll(all, limit) == all

\* line 242: all_events = all_events[:limit_total_results]
EventsTruncate(all, limit) == PySlice(all, limit)

\* line 250: return all_events
ListEventsReturn(all) == [kind |-> "ok", records |-> all, total_results |-> 0]

\* the request starts from the first page again
NoPageToken(tok) == None

\* calendar_tools.py:131-132, youtube_tools.py:159: the pageToken the request
\* carries is next_page_token (absent while it is None)
PageToken(tok) == tok

\* the pages a page-token endpoint may answer the request in flight with
TokenPages(metas) ==
    {Page(n, tok, m, "ok") : n \in PageLens(req.size), tok \in {None} \cup Tokens, m \in metas}

\* the same with an item the record constructor rejects
MalformedPages ==
    {BadPage(n, tok, 1) : n \in PageLens(req.size) \cap (1..req.size), tok \in {None, 1}}

list_calendars_Call(svc, limit) ==
    /\ pc = "idle"
    /\ op' = "list_calendars"
    /\ service' = svc
    /\ target' = limit
    /\ acc' = <<>>
    /\ next_page_token' = None
    /\ results_count' = 0
    /\ IF ~HasService(svc)
       THEN Return(ServiceNotCreated)
       ELSE Issue("page", CalendarPageSize(limit, 0), 0, None)
    /\ NoPage
    /\ UNCHANGED <<count, offset, current_offset, remaining_results, combined_results,
                   total_results, uploads_playlist_id>>

list_calendars_Response(page) ==
    /\ op = "list_calendars"
    /\ pc = "wait"
    /\ LET calendars == Items(page)
           all == Extend(acc, calendars)
           counted == results_count + Len(calendars)
       IN /\ acc' = all
          /\ results_count' = counted
          /\ IF CalendarBreak(counted, target)
             THEN /\ next_page_token' = next_page_token
                  /\ Return(ListCalendarsReturn(all))
             ELSE /\ next_page_token' = page.tok
                  /\ IF page.tok = None
                     THEN Return(ListCalendarsReturn(all))
                     ELSE Issue("page", CalendarPageSize(target, counted), 0, PageToken(page.tok))
    /\ Observe(page, req.size)
    /\ UNCHANGED <<op, count, offset, target, current_offset, remaining_results,
                   combined_results, total_results, uploads_playlist_id>>

\* line 170-172: except Exception as e: return str(e)
list_calendars_Fail ==
    /\ op = "list_calendars"
    /\ pc = "wait"
    /\ Return(ErrorString)
    /\ ObserveFailure
    /\ UNCHANGED <<op, count, offset, target, acc, next_page_token, results_count,
                   current_offset, remaining_results, combined_results, total_results,
                   uploads_playlist_id>>

list_calendar_events_Call(svc, limit) ==
    /\ pc = "idle"
    /\ op' = "list_calendar_events"
    /\ service' = svc
    /\ target' = limit
    /\ acc' = <<>>
    /\ next_page_token' = None
    /\ results_count' = 0
    /\ IF ~HasService(svc)
       THEN Return(ServiceNotCreated)
       ELSE Issue("page", CalendarPageSize(limit, 0), 0, None)
    /\ NoPage
    /\ UNCHANGED <<count, offset, current_offset, remaining_results, combined_results,
                   total_results, uploads_playlist_id>>

list_calendar_events_Response(page) ==
    /\ op = "list_calendar_events"
    /\ pc = "wait"
    /\ LET events == Items(page)
           all == Extend(acc, events)
           counted == results_count + Len(events)
       IN /\ results_count' = counted
          /\ IF CalendarBreak(counted, target)
             THEN /\ acc' = EventsTruncate(all, target)
                  /\ next_page_token' = next_page_token
                  /\ Return(ListEventsReturn(EventsTruncate(all, target)))
             ELSE /\ acc' = all
                  /\ next_page_token' = page.tok
                  /\ IF page.tok = None
                     THEN Return(ListEventsReturn(all))
                     ELSE Issue("page", CalendarPageSize(target, counted), 0, PageToken(page.tok))
    /\ Observe(page, req.size)
    /\ UNCHANGED <<op, count, offset, target, current_offset, remaining_results,
                   combined_results, total_results, uploads_playlist_id>>

\* line 252-254: except Exception as e: return str(e)
list_calendar_events_Fail ==
    /\ op = "list_calendar_events"
    /\ pc = "wait"
    /\ Return(ErrorString)
    /\ ObserveFailure
    /\ UNCHANGED <<op, count, offset, target, acc, next_page_token, results_count,
                   current_offset, remaining_results, combined_results, total_results,
                   uploads_playlist_id>>

----------------------------------------------------------------------------------------------------------------------------------------
(* GoogleCalendarTool.create_calendar and insert_calendar_event *)

\* lines 69-87 and 273-279: the service check, then the insert request
InsertCall(o, svc) ==
    /\ pc = "idle"
    /\ op' = o
    /\ service' = svc
    /\ IF ~HasService(svc)
       THEN Return(ReturnedNone)
       ELSE Issue("insert", 0, 0, None)
    /\ NoPage
    /\ UNCHANGED <<count, offset, target, acc, next_page_token, results_count,
                   current_offset, remaining_results, combined_results, total_results,
                   uploads_playlist_id>>

\* lines 85-94 and 276-282: the created calendar or event is returned
InsertResponse(o, kind) ==
    /\ op = o
    /\ pc = "wait"
    /\ Return([kind |-> "ok", records |-> <<[kind |-> kind, id |-> 1]>>, total_results |-> 0])
    /\ NoObserve
    /\ UNCHANGED <<op, count, offset, target, acc, next_page_token, results_count,
                   current_offset, remaining_results, combined_results, total_results,
                   uploads_playlist_id>>

InsertFail(o, r) ==
    /\ op = o
    /\ pc = "wait"
    /\ Return(r)
    /\ ObserveFailure
    /\ UNCHANGED <<op, count, offset, target, acc, next_page_token, results_count,
                   current_offset, remaining_results, combined_results, total_results,
                   uploads_playlist_id>>

create_calendar_Call(svc) == InsertCall("create_calendar", svc)
create_calendar_Response == InsertResponse("create_calendar", "calendar")
\* lines 96-98: except Exception as e: return str(e)
create_calendar_Fail == InsertFail("create_calendar", ErrorString)

insert_calendar_event_Call(svc) == InsertCall("insert_calendar_event", svc)
insert_calendar_event_Response == InsertResponse("insert_calendar_event", "event")
\* lines 285-287: except Exception as e: return None
insert_calendar_event_Fail == InsertFail("insert_calendar_event", ReturnedNone)

----------------
(* YouTubeTool: search_channel, search_playlist, search_videos, get_video_info *)
(* share one loop; get_channel_videos adds a channel lookup to each iteration  *)

\* maxResults=min(50, max_results - len(lst))
YouTubePageSize(max_results, lst) == Min(YouTubeMaxResults, max_results - Len(lst))

\* the record type each loop appends
InfoKind(o) ==
    IF o = "search_channel" THEN "ChannelInfo"
    ELSE IF o = "search_playlist" THEN "PlaylistInfo"
    ELSE "VideoInfo"

Info(o, item) == [kind |-> InfoKind(o), id |-> item.id]

\* the items ahead of the first one the record constructor rejects
Mappable(items) ==
    LET bad == {i \in DOMAIN items : ~Maps(items[i])}
    IN IF bad = {} THEN items
       ELSE SubSeq(items, 1, (CHOOSE i \in bad : \A j \in bad : i <= j) - 1)

\* for item in response['items']: ... lst.append(info)
YouTubeAppend(o, lst, items) ==
    lst \o [i \in DOMAIN Mappable(items) |-> Info(o, items[i])]

\* total_results kept from the first page
YouTubeTotalFirst(old, page) == IF old = 0 THEN page.meta ELSE old

\* total_results = response['pageInfo']['totalResults']
YouTubeTotal(old, page) == page.meta

\* return XResults(total_results=total_results, <list>=lst).model_dump_json()
YouTubeReturn(total, lst) == [kind |-> "ok", records |-> lst, total_results |-> total]

\* while len(lst) < max_results: the next request, or the return
YouTubeLoop(o, max_results, lst, total, tok) ==
    IF Len(lst) < max_results
    THEN IF o = "get_channel_videos"
         THEN Issue("channel", 0, 0, None)
         ELSE Issue("page", YouTubePageSize(max_results, lst), 0, PageToken(tok))
    ELSE Return(YouTubeReturn(total, lst))

YouTubeCall(o, max_results) ==
    /\ pc = "idle"
    /\ op' = o
    /\ target' = max_results
    /\ acc' = <<>>
    /\ total_results' = 0
    /\ next_page_token' = None
    /\ YouTubeLoop(o, max_results, <<>>, 0, None)
    /\ NoObserve
    /\ UNCHANGED <<count, offset, results_count, current_offset, remaining_results,
                   combined_results, uploads_playlist_id>>

YouTubeResponse(o, page) ==
    /\ op = o
    /\ pc = "wait"
    /\ LET lst == YouTubeAppend(o, acc, Items(page))
           total == YouTubeTotal(total_results, page)
       IN /\ acc' = lst
          /\ IF \E i \in DOMAIN Items(page) : ~Maps(Items(page)[i])
             THEN \* item['snippet'] or the Info constructor raises; no handler
                  /\ UNCHANGED <<total_results, next_page_token>>
                  /\ Return(Raised)
             ELSE /\ total_results' = total
                  /\ next_page_token' = page.tok
                  /\ IF page.tok = None
                     THEN Return(YouTubeReturn(total, lst))
                     ELSE YouTubeLoop(o, target, lst, total, page.tok)
    /\ Observe(page, req.size)
    /\ UNCHANGED <<op, count, offset, target, results_count, current_offset,
                   remaining_results, combined_results, uploads_playlist_id>>

\* request.execute() raises; no handler in the method
YouTubeFail(o) ==
    /\ op = o
    /\ pc \in {"wait", "wait_channel"}
    /\ Return(Raised)
    /\ ObserveFailure
    /\ UNCHANGED <<op, count, offset, target, acc, next_page_token, results_count,
                   current_offset, remaining_results, combined_results, total_results,
                   uploads_playlist_id>>

search_channel_Call(max_results) == YouTubeCall("search_channel", max_results)
search_channel_Response(page) == YouTubeResponse("search_channel", page)
search_channel_Fail == YouTubeFail("search_channel")

search_playlist_Call(max_results) == YouTubeCall("search_playlist", max_results)
search_playlist_Response(page) == YouTubeResponse("search_playlist", page)
search_playlist_Fail == YouTubeFail("search_playlist")

search_videos_Call(max_results) == YouTubeCall("search_videos", max_results)
search_videos_Response(page) == YouTubeResponse("search_videos", page)
search_videos_Fail == YouTubeFail("search_videos")

get_video_info_Call(max_results) == YouTubeCall("get_video_info", max_results)
get_video_info_Response(page) == YouTubeResponse("get_video_info", page)
get_video_info_Fail == YouTubeFail("get_video_info")

\* the uploads playlist id of the first lookup kept for the whole call
UploadsIdFirst(old, looked) == IF old = None THEN looked ELSE old

\* line 400: uploads_playlist_id = response['items'][0]['contentDetails']
\* ['relatedPlaylists'].get('uploads'), in every iteration
UploadsId(old, looked) == looked

get_channel_videos_Call(max_results) == YouTubeCall("get_channel_videos", max_results)

\* lines 393-408: the channel lookup answers; the playlistItems request goes out
get_channel_videos_Channel(playlist) ==
    /\ op = "get_channel_videos"
    /\ pc = "wait_channel"
    /\ uploads_playlist_id' = UploadsId(uploads_playlist_id, playlist)
    /\ IssuePlaylistItems(YouTubePageSize(target, acc), PageToken(next_page_token),
                          UploadsId(uploads_playlist_id, playlist))
    /\ lastLookup' = playlist
    /\ UNCHANGED <<fetched, avail, conforms, shortSeen, overSeen, failed, firstMeta, lastMeta,
                   lastTok, service, text>>
    /\ UNCHANGED <<op, count, offset, target, acc, next_page_token, results_count,
                   current_offset, remaining_results, combined_results, total_results>>

get_channel_videos_Response(page) == YouTubeResponse("get_channel_videos", page)
get_channel_videos_Fail == YouTubeFail("get_channel_videos")

----------------------------------------------------------------------------------------------------------------------------------------
(* ExaTool: search, find_similar_results, get_contents, get_answer *)

ExaOps == {"search", "find_similar_results", "get_answer", "get_contents"}

\* the items of an SDK response: n items, those at the positions in `bad`
\* rejected by the record constructor
ExaItems(n, bad) == [i \in 1..n |-> IF i \in bad THEN BadItem(i) ELSE RawItem(i)]

ExaResponses == UNION {{ExaItems(n, bad) : bad \in SUBSET (1..n)} : n \in 0..MaxItems}

\* the record type each operation builds
ExaKind(o) ==
    IF o = "get_answer" THEN "AnswerResult_"
    ELSE IF o = "get_contents" THEN "ContentResult"
    ELSE "SearchResult"

ExaRecord(o, item) == [kind |-> ExaKind(o), id |-> item.id]

\* the records built before the constructor raised are returned
ExaConvertPartial(o, items) ==
    [kind |-> "ok", records |-> [i \in DOMAIN Mappable(items) |-> ExaRecord(o, items[i])],
     total_results |-> 0]

\* for result in response.results: results.append(SearchResult(...)), inside the
\* method's try: a constructor that raises leaves through `except Exception`
ExaConvert(o, items) ==
    IF \A i \in DOMAIN items : Maps(items[i])
    THEN [kind |-> "ok", records |-> [i \in DOMAIN items |-> ExaRecord(o, items[i])],
          total_results |-> 0]
    ELSE ErrorString

ExaCall(o) ==
    /\ pc = "idle"
    /\ op' = o
    /\ acc' = <<>>
    /\ Issue("sdk", 0, 0, None)
    /\ NoObserve
    /\ UNCHANGED <<count, offset, target, next_page_token, results_count, current_offset,
                   remaining_results, combined_results, total_results,
                   uploads_playlist_id>>

\* what the model remembers of an SDK response
ObserveItems(items) ==
    /\ fetched' = items
    /\ UNCHANGED <<avail, conforms, shortSeen, overSeen, failed, firstMeta, lastMeta, lastTok,
                   lastLookup, service, text>>

ExaResponse(o, items) ==
    /\ op = o
    /\ pc = "wait"
    /\ acc' = [i \in DOMAIN Mappable(items) |-> ExaRecord(o, items[i])]
    /\ Return(ExaConvert(o, items))
    /\ ObserveItems(items)
    /\ UNCHANGED <<op, count, offset, target, next_page_token, results_count,
                   current_offset, remaining_results, combined_results, total_results,
                   uploads_playlist_id>>

\* the SDK call raises: except Exception as e: return f'Error: {str(e)}'
ExaFail(o) ==
    /\ op = o
    /\ pc = "wait"
    /\ Return(ErrorString)
    /\ ObserveFailure
    /\ UNCHANGED <<op, count, offset, target, acc, next_page_token, results_count,
                   current_offset, remaining_results, combined_results, total_results,
                   uploads_playlist_id>>

search_Call == ExaCall("search")
search_Response(items) == ExaResponse("search", items)
search_Fail == ExaFail("search")

find_similar_results_Call == ExaCall("find_similar_results")
find_similar_results_Response(items) == ExaResponse("find_similar_results", items)
find_similar_results_Fail == ExaFail("find_similar_results")

get_contents_Call == ExaCall("get_contents")
get_contents_Response(items) == ExaResponse("get_contents", items)
get_contents_Fail == ExaFail("get_contents")

\* the citation loop leaving at the first citation that does not convert
RECURSIVE ConvertUntilBad(_, _)
ConvertUntilBad(citations, out) ==
    IF citations = <<>> \/ ~Maps(Head(citations)) THEN out
    ELSE ConvertUntilBad(Tail(citations),
                         Append(out, ExaRecord("get_answer", Head(citations))))

\* lines 253-269: for citation in response.citations: try: citations.append(
\* AnswerResult_(...)) except Exception: print(...); continue
RECURSIVE ConvertCitations(_, _)
ConvertCitations(citations, out) ==
    IF citations = <<>> THEN out
    ELSE ConvertCitations(Tail(citations),
                          IF Maps(Head(citations))
                          THEN Append(out, ExaRecord("get_answer", Head(citations)))
                          ELSE out)

get_answer_Call == ExaCall("get_answer")

\* lines 246-275
get_answer_Response(items) ==
    /\ op = "get_answer"
    /\ pc = "wait"
    /\ acc' = ConvertCitations(items, <<>>)
    /\ Return([kind |-> "ok", records |-> ConvertCitations(items, <<>>), total_results |-> 0])
    /\ ObserveItems(items)
    /\ UNCHANGED <<op, count, offset, target, next_page_token, results_count,
                   current_offset, remaining_results, combined_results, total_results,
                   uploads_playlist_id>>

get_answer_Fail == ExaFail("get_answer")

----------------------------------------------------------------------------
(* scraping_tools.get_page_content *)

Newline == "\n"
Space == " "
Chars == {"a", Newline, Space}

\* the texts BeautifulSoup may extract from a fetched page
Texts == UNION {[1..n -> Chars] : n \in 0..MaxText}

\* the text left as it is
KeepNewlines(t) == t

\* soup.text.replace('\n', ' ')
ReplaceNewlines(t) == [i \in DOMAIN t |-> IF t[i] = Newline THEN Space ELSE t[i]]

TextResult(t) == [kind |-> "text", records |-> t, total_results |-> 0]

get_page_content_Call ==
    /\ pc = "idle"
    /\ op' = "get_page_content"
    /\ Issue("http", 0, 0, None)
    /\ NoObserve
    /\ UNCHANGED <<count, offset, target, acc, next_page_token, results_count,
                   current_offset, remaining_results, combined_results, total_results,
                   uploads_playlist_id>>

\* lines 26-28: the status is good and the page parses
get_page_content_Response(t) ==
    /\ op = "get_page_content"
    /\ pc = "wait"
    /\ text' = t
    /\ Return(TextResult(ReplaceNewlines(t)))
    /\ UNCHANGED <<op, count, offset, target, acc, next_page_token, results_count,
                   current_offset, remaining_results, combined_results, total_results,
                   uploads_playlist_id, fetched, avail, conforms, shortSeen, overSeen,
                   failed, firstMeta, lastMeta, lastTok, lastLookup, service>>

\* a handler of lines 29-37 catches the exception and returns ''
ScrapeFail ==
    /\ op = "get_page_content"
    /\ pc = "wait"
    /\ Return(TextResult(<<>>))
    /\ ObserveFailure
    /\ UNCHANGED <<op, count, offset, target, acc, next_page_token, results_count,
                   current_offset, remaining_results, combined_results, total_results,
                   uploads_playlist_id>>

\* lines 29-31: raise_for_status raises httpx.HTTPStatusError
get_page_content_StatusError == ScrapeFail

\* lines 32-34: httpx.get raises httpx.RequestError
get_page_content_RequestError == ScrapeFail

\* lines 35-37: anything else raises, BeautifulSoup included
get_page_content_OtherError == ScrapeFail

----------------------------------------------------------------------------
(* Two web_search calls on one BraveSearchTool instance, their awaits interleaved *)

ConcCounts == {1, 2}
ConcOffsets == {0, 8}
ConcTargets == {0, 1, 3}

\* every call works on the same frame
SharedFrame(c) == 1

\* all_results, current_offset, remaining_results and combined_results are
\* local variables of the coroutine: each call has a frame of its own
Frame(c) == c

\* lines 86-89: the frame when the loop is entered
FirstFrame(o, t) ==
    [all_results |-> <<>>, current_offset |-> o, remaining_results |-> t,
     combined_results |-> Unbound]

\* lines 94-123: headers = self.headers.copy(); headers['X-Subscription-Token']
\* = self.api_key; client.get(self.base_url, params=params, headers=headers)
PageRequest(size, off) ==
    [size |-> size, offset |-> off, url |-> self.base_url,
     headers |-> self.headers \cup {"X-Subscription-Token"}, token |-> self.api_key]

\* the answer to a request that failed
FailedPage ==
    [n |-> 0, tok |-> None, meta |-> 0, web |-> "error", bad |-> 0, missing |-> {}]

\* the number of items in the pages received
RECURSIVE Received(_)
Received(pages) ==
    IF pages = <<>> THEN 0
    ELSE (IF Head(pages).web = "ok" THEN Head(pages).n ELSE 0) + Received(Tail(pages))

\* lines 129-140: the frame after a page with these items arrived
AfterPage(o, fr, page, items) ==
    LET hasWeb == page.web = "ok" IN
    [all_results |-> IF hasWeb THEN Extend(fr.all_results, items) ELSE fr.all_results,
     current_offset |-> IF hasWeb THEN fr.current_offset + Len(items)
                                  ELSE fr.current_offset,
     remaining_results |-> IF hasWeb THEN fr.remaining_results - Len(items)
                                     ELSE fr.remaining_results,
     combined_results |-> Combined(fr.current_offset, o, fr.combined_results, page)]

\* lines 143-151: the loop is left after the page
Stops(cnt, fr, page, after) ==
    \/ page.web # "ok"
    \/ BraveBreak(page.n, batch_count(cnt, fr.remaining_results), after.current_offset)

\* line 91: the call goes on to its next request, or returns
Proceed(k, fr) ==
    IF fr.remaining_results > 0
    THEN [k EXCEPT !.pc = "wait",
                   !.req = PageRequest(batch_count(k.count, fr.remaining_results),
                                       fr.current_offset)]
    ELSE [k EXCEPT !.pc = "done",
                   !.result = BraveReturn(fr.all_results, fr.combined_results, k.target)]

\* what a call with these arguments returns when it runs alone and receives
\* these pages
RECURSIVE RunAlone(_, _, _, _, _)
RunAlone(cnt, o, t, fr, pages) ==
    IF fr.remaining_results <= 0 THEN BraveReturn(fr.all_results, fr.combined_results, t)
    ELSE IF pages = <<>> THEN NoResult
    ELSE IF Head(pages).web = "error" THEN Raised
    ELSE LET page == Head(pages)
             after == AfterPage(o, fr, page, ItemsFrom(Len(fr.all_results), page))
         IN IF Stops(cnt, fr, page, after)
            THEN BraveReturn(after.all_results, after.combined_results, t)
            ELSE RunAlone(cnt, o, t, after, Tail(pages))

\* lines 82-123: a call starts and runs to its first await
web_search_Enter(c, cnt, o, t) ==
    /\ calls[c].pc = "idle"
    /\ frames' = [frames EXCEPT ![Frame(c)] = FirstFrame(o, t)]
    /\ calls' = [calls EXCEPT ![c] =
                    Proceed([calls[c] EXCEPT !.count = cnt, !.offset = o, !.target = t],
                            FirstFrame(o, t))]
    /\ UNCHANGED <<self, overlapped>>
    /\ UNCHANGED solo

\* lines 125-151 and back to 91-123: the awaited response arrives; the call runs
\* to its next await or to its return
web_search_Resume(c, page) ==
    /\ calls[c].pc = "wait"
    /\ LET k == [calls[c] EXCEPT !.pages = Append(calls[c].pages, page)]
           fr == frames[Frame(c)]
           after == AfterPage(k.offset, fr, page, ItemsFrom(Received(calls[c].pages), page))
       IN /\ frames' = [frames EXCEPT ![Frame(c)] = after]
          /\ calls' = [calls EXCEPT ![c] =
                IF Stops(k.count, fr, page, after)
                THEN [k EXCEPT !.pc = "done",
                               !.result = BraveReturn(after.all_results,
                                                      after.combined_results, k.target)]
                ELSE Proceed(k, after)]
    /\ overlapped' = (overlapped \/ \E d \in Calls \ {c} :
                                       calls[d].pc = "wait" /\ calls[d].pages # <<>>)
    /\ self' = self
    /\ UNCHANGED solo

\* line 119/125: the awaited request raises
web_search_Raise(c) ==
    /\ calls[c].pc = "wait"
    /\ calls' = [calls EXCEPT ![c] = [calls[c] EXCEPT !.pc = "done", !.result = Raised,
                                         !.pages = Append(calls[c].pages, FailedPage)]]
    /\ UNCHANGED <<self, frames, overlapped>>
    /\ UNCHANGED solo

\* the pages the endpoint may answer the request of call c with
ConcPages(c) ==
    {Page(n, None, 1, "ok") : n \in {0, calls[c].req.size, calls[c].req.size + MaxExtra}}
        \cup {Page(0, None, 1, "none")}

----------------
Next ==
    \/ \E svc \in BOOLEAN, t \in CalendarTargets : list_calendars_Call(svc, t)
    \/ \E page \in TokenPages({1}) \cup MalformedPages : list_calendars_Response(page)
    \/ list_calendars_Fail
    \/ \E svc \in BOOLEAN, t \in CalendarTargets : list_calendar_events_Call(svc, t)
    \/ \E page \in TokenPages({1}) : list_calendar_events_Response(page)
    \/ list_calendar_events_Fail
    \/ \E t \in YouTubeTargets : search_channel_Call(t)
    \/ \E page \in TokenPages(Metas) \cup MalformedPages : search_channel_Response(page)
    \/ search_channel_Fail
    \/ \E t \in YouTubeTargets : search_playlist_Call(t)
    \/ \E page \in TokenPages(Metas) \cup MalformedPages : search_playlist_Response(page)
    \/ search_playlist_Fail
    \/ \E t \in YouTubeTargets : search_videos_Call(t)
    \/ \E page \in TokenPages(Metas) \cup MalformedPages : search_videos_Response(page)
    \/ search_videos_Fail
    \/ \E t \in YouTubeTargets : get_video_info_Call(t)
    \/ \E page \in TokenPages(Metas) \cup MalformedPages : get_video_info_Response(page)
    \/ get_video_info_Fail
    \/ \E t \in YouTubeTargets : get_channel_videos_Call(t)
    \/ \E playlist \in PlaylistIds : get_channel_videos_Channel(playlist)
    \/ \E page \in TokenPages(Metas) \cup MalformedPages : get_channel_videos_Response(page)
    \/ get_channel_videos_Fail
    \/ \E c \in BraveCounts, o \in BraveOffsets, t \in BraveTargets : web_search_Call(c, o, t)
    \/ \E page \in BravePages : web_search_Response(page)
    \/ web_search_Fail
    \/ \E svc \in BOOLEAN : create_calendar_Call(svc)
    \/ create_calendar_Response
    \/ create_calendar_Fail
    \/ \E svc \in BOOLEAN : insert_calendar_event_Call(svc)
    \/ insert_calendar_event_Response
    \/ insert_calendar_event_Fail
    \/ search_Call
    \/ \E items \in ExaResponses : search_Response(items)
    \/ search_Fail
    \/ find_similar_results_Call
    \/ \E items \in ExaResponses : find_similar_results_Response(items)
    \/ find_similar_results_Fail
    \/ get_contents_Call
    \/ \E items \in ExaResponses : get_contents_Response(items)
    \/ get_contents_Fail
    \/ get_answer_Call
    \/ \E items \in ExaResponses : get_answer_Response(items)
    \/ get_answer_Fail
    \/ get_page_content_Call
    \/ \E t \in Texts : get_page_content_Response(t)
    \/ get_page_content_StatusError
    \/ get_page_content_RequestError
    \/ get_page_content_OtherError

Spec == Init /\ [][Next]_vars

\* the source answers every request and the call runs on
FairSpec == Spec /\ WF_vars(Next)

ConcNext ==
    \/ \E c \in Calls, cnt \in ConcCounts, o \in ConcOffsets, t \in ConcTargets :
           web_search_Enter(c, cnt, o, t)
    \/ \E c \in Calls : \E page \in ConcPages(c) : web_search_Resume(c, page)
    \/ \E c \in Calls : web_search_Raise(c)

\* two calls on one instance, each step of either call taken in any order
ConcSpec == Init /\ [][ConcNext]_vars

----------------------------------------------------------------------------
(* Properties *)

YouTubeOps == {"search_channel", "search_playlist", "search_videos", "get_video_info",
               "get_channel_videos"}
CalendarOps == {"list_calendars", "list_calendar_events"}
TokenOps == CalendarOps \cup YouTubeOps
PagedOps == TokenOps \cup {"web_search"}

Returned == pc = "done" /\ result.kind = "ok"

Ids(s) == [i \in DOMAIN s |-> s[i].id]

CeilDiv(a, b) == (a + b - 1) \div b

\* the page-size cap of each provider
Cap(o) ==
    IF o = "web_search" THEN BraveMaxCount
    ELSE IF o \in CalendarOps THEN CalendarMaxResults
    ELSE YouTubeMaxResults

\* C1: web_search and list_calendar_events never return more than the requested
\* total N >= 0, whatever the pages hold (pages may hold more than was requested)
C1_AtMostTarget ==
    (Returned /\ op \in {"web_search", "list_calendar_events"} /\ target >= 0)
        => Len(result.records) <= target

\* a list_calendar_events call that received more items than its target and
\* returned exactly the target
C1_Witness ==
    /\ Returned
    /\ op = "list_calendar_events"
    /\ target > 0
    /\ overSeen
    /\ Len(fetched) > target
    /\ Len(result.records) = target

\* C2: web_search(offset=0, count=20, total_results=T > 20) against a source that
\* holds A results and serves full pages returns exactly min(T, A) results
C2_BraveReturnsMin ==
    (pc = "done" /\ op = "web_search" /\ offset = 0 /\ count = 20 /\ target > 20
        /\ conforms /\ ~failed)
        => (result.kind = "ok" /\ Len(result.records) = Min(target, avail))

\* C3: a call with requested total 0 returns an empty result of its normal type
\* and issues no request
C3_ZeroTargetNoRequest ==
    (pc = "done" /\ op \in PagedOps /\ service /\ target = 0 /\ ~failed)
        => (result.kind = "ok" /\ result.records = <<>> /\ nreq = 0)

\* C4: after a page that held fewer items than were requested for it, no further
\* request is issued
C4_NoRequestAfterShortPage ==
    shortSeen => pc \notin {"wait", "wait_channel"}

\* C5: a token loop whose source answers every request with zero items and a
\* continuation token eventually returns
C5_EmptyPagesTerminate ==
    [](op # "web_search" /\ fetched = <<>> /\ ~failed) => <>(pc = "done")

\* C6: with target N >= 1 and pages that never hold more than requested, a call
\* issues at most ceil(N / cap) + 1 requests
C6_RequestBound ==
    (op # "none" /\ target >= 1 /\ ~overSeen)
        => nreq <= CeilDiv(target, Cap(op)) + 1

\* C7: the returned records are the items of the fetched pages, in fetch order
\* and in-page order, cut to the target length
C7_ConcatenationCutToTarget ==
    (Returned /\ op \in PagedOps) => Ids(result.records) = Ids(PySlice(fetched, target))

\* C8: a token loop with target N >= 0 against a source that holds A items, never
\* serves more than requested and hands out a token exactly when items remain
\* returns min(N, A) records
C8_TokenLoopsReturnMin ==
    (pc = "done" /\ op \in TokenOps /\ service /\ target >= 0 /\ conforms /\ ~failed)
        => (result.kind = "ok" /\ Len(result.records) = Min(target, avail))

\* a list_calendars call that needed two pages and returned all of the target,
\* fewer than the source holds
C8_Witness ==
    /\ Returned
    /\ op = "list_calendars"
    /\ conforms
    /\ nreq >= 2
    /\ target < avail
    /\ Len(result.records) = target

ErrorOutcome(o) ==
    IF o \in CalendarOps \cup ExaOps \cup {"create_calendar"} THEN ErrorString
    ELSE IF o = "insert_calendar_event" THEN ReturnedNone
    ELSE IF o = "get_page_content" THEN TextResult(<<>>)
    ELSE Raised

\* C10: when a page request fails the call ends at once, with no request in
\* flight, in its provider's error outcome, which holds no records
C10_FailureEndsCall ==
    failed => (pc = "done" /\ result = ErrorOutcome(op) /\ result.records = <<>>)

\* a call whose second or later request failed after records had been accumulated
C10_Witness ==
    /\ failed
    /\ nreq >= 2
    /\ Len(acc) > 0
    /\ op = "list_calendar_events"
    /\ result.kind = "errstr"

\* the operations that build a record from each raw item and have no handler
\* around the single item
MappingOps == {"search", "find_similar_results", "get_contents", "list_calendars"}
                  \cup YouTubeOps

\* an item the record constructor rejects was received
BadItemSeen == \E i \in DOMAIN fetched : ~Maps(fetched[i])

\* C13: a raw item whose mapping fails does not cost the call its result: the
\* call returns its result object, with the records of the other items
C13_BadItemKeepsOthers ==
    (pc = "done" /\ op \in MappingOps /\ service /\ ~failed)
        => /\ result.kind = "ok"
           /\ \A i \in DOMAIN fetched :
                  (Maps(fetched[i]) /\ (op \in ExaOps \/ i <= target))
                      => \E j \in DOMAIN result.records :
                             result.records[j].id = fetched[i].id

\* C14: get_answer returns exactly the citations that converted, in their
\* original order, and never raises
C14_GetAnswerSkipsBadCitations ==
    (pc = "done" /\ op = "get_answer")
        => /\ result.kind \in {"ok", "errstr"}
           /\ ~failed => /\ result.kind = "ok"
                         /\ Ids(result.records) = Ids(SelectSeq(fetched, Maps))

\* three citations, the second failing to convert, the first and third returned
C14_Witness ==
    /\ pc = "done"
    /\ op = "get_answer"
    /\ Len(fetched) = 3
    /\ ~Maps(fetched[2])
    /\ Ids(result.records) = <<1, 3>>

\* C15 as stated: an Exa operation never raises; it returns the error string,
\* and no records, when the SDK call or a conversion raised, and its result
\* object otherwise
C15_ExaErrorString ==
    (pc = "done" /\ op \in ExaOps)
        => IF failed \/ BadItemSeen
           THEN result = ErrorString
           ELSE result.kind = "ok" /\ Ids(result.records) = Ids(fetched)

\* C15 as amended: a citation of get_answer whose conversion raises is skipped
\* and does not turn the result into the error string
C15_ExaErrorStringButCitations ==
    (pc = "done" /\ op \in ExaOps)
        => IF failed \/ (BadItemSeen /\ op # "get_answer")
           THEN result = ErrorString
           ELSE result.kind = "ok" /\ Ids(result.records) = Ids(SelectSeq(fetched, Maps))

\* a search whose second item failed to convert: the error string, the record
\* already built dropped
C15_Witness ==
    /\ pc = "done"
    /\ op = "search"
    /\ ~failed
    /\ Len(fetched) >= 2
    /\ Maps(fetched[1])
    /\ ~Maps(fetched[2])
    /\ Len(acc) = 1
    /\ result = ErrorString

\* C18: get_page_content never raises; it returns the empty string when the
\* fetch or the parse failed, and otherwise the page text with every newline
\* replaced by a space and every other character kept
C18_PageContent ==
    (pc = "done" /\ op = "get_page_content")
        => /\ result.kind = "text"
           /\ failed => result.records = <<>>
           /\ ~failed =>
                  /\ Len(result.records) = Len(text)
                  /\ \A i \in DOMAIN text :
                         /\ result.records[i] # Newline
                         /\ text[i] = Newline => result.records[i] = Space
                         /\ text[i] # Newline => result.records[i] = text[i]

\* a fetched page whose text holds a newline between other characters
C18_Witness ==
    /\ pc = "done"
    /\ op = "get_page_content"
    /\ ~failed
    /\ text = <<"a", Newline, "a">>
    /\ result.records = <<"a", Space, "a">>

\* C17: two web_search calls on one instance do not affect each other: the
\* frame of each holds what the call itself received, each returns what it
\* would return alone for the pages it received, and the instance fields stay
\* as __init__ set them
C17_CallsIndependent ==
    /\ self = Instance
    /\ \A c \in Calls :
          LET k == calls[c] IN
          /\ k.pc = "wait" =>
                 /\ Len(frames[c].all_results) = Received(k.pages)
                 /\ frames[c].current_offset = k.offset + Received(k.pages)
                 /\ frames[c].remaining_results = k.target - Received(k.pages)
          /\ k.pc = "done" =>
                 k.result = RunAlone(k.count, k.offset, k.target,
                                     FirstFrame(k.offset, k.target), k.pages)

\* both calls returned results after their awaits interleaved, the first call
\* over two pages, with different numbers of results
C17_Witness ==
    /\ overlapped
    /\ calls[1].pc = "done" /\ calls[2].pc = "done"
    /\ calls[1].result.kind = "ok" /\ calls[2].result.kind = "ok"
    /\ Len(calls[1].pages) >= 2
    /\ Len(calls[1].result.records) = 3
    /\ Len(calls[2].result.records) = 1

\* the arguments the providers document as out of range
InvalidRequest == target < 0 \/ (op = "web_search" /\ count <= 0)

\* C11: a call with a negative requested total or a page size <= 0 ends in an
\* error outcome without issuing any request
C11_InvalidRequestFailsFast ==
    (op # "none" /\ service /\ InvalidRequest)
        => (pc = "done" /\ nreq = 0 /\ result.kind \in {"raise", "errstr"})

\* C12: no web_search request carries an offset greater than 9
C12_OffsetAtMostNine ==
    (op = "web_search" /\ req.kind = "page") => req.offset <= BraveMaxOffset

\* C16: web_search has at most one request in flight, and while a request is in
\* flight every item received so far is in the accumulator
C16_OneRequestInFlight ==
    op = "web_search"
        => /\ inflight <= 1
           /\ pc = "wait" => (inflight = 1 /\ Ids(acc) = Ids(fetched))

\* the third request of a web_search call in flight, the items of the first two
\* answers accumulated
C16_Witness ==
    /\ op = "web_search"
    /\ pc = "wait"
    /\ nreq = 3
    /\ inflight = 1
    /\ Len(acc) >= 2

\* the page size each request may not exceed
PageCap(o) == IF o = "web_search" THEN api_count(count) ELSE Cap(o)

\* C19: every page request asks for exactly min(C, N - accumulated) items, C the
\* page-size cap and accumulated the number of items received so far
C19_PageSizeRequested ==
    (pc = "wait" /\ req.kind = "page")
        => req.size = Min(PageCap(op), target - Len(fetched))

\* a later request of a web_search call that asks for less than the cap because
\* less is still wanted
C19_Witness ==
    /\ op = "web_search"
    /\ pc = "wait"
    /\ nreq >= 2
    /\ Len(fetched) > 0
    /\ req.size = target - Len(fetched)
    /\ req.size < PageCap(op)

\* C20: in a web_search call with count >= 1 and total_results >= 1 a request is
\* in flight only while results remain to be fetched, and every iteration that
\* goes on to another request has decreased remaining_results
C20_RemainingDecreases ==
    /\ [](op = "web_search" /\ count >= 1 /\ target >= 1 /\ pc = "wait"
             => remaining_results > 0)
    /\ [][(op = "web_search" /\ count >= 1 /\ target >= 1 /\ pc = "wait" /\ pc' = "wait")
             => remaining_results' < remaining_results]_vars

\* a web_search call with count >= 1 on its third request, fewer results
\* remaining than were asked for
C20_Witness ==
    /\ op = "web_search"
    /\ count >= 1
    /\ target >= 1
    /\ pc = "wait"
    /\ nreq = 3
    /\ remaining_results > 0
    /\ remaining_results < target

\* C21: with 0 < N <= page-size cap, when the first page holds exactly the N
\* items asked for, the call ends after that one page request (with the channel
\* lookup before it in get_channel_videos), token or no token
C21_OneRequestWhenFirstPageFills ==
    (op \in PagedOps /\ 0 < target /\ target <= PageCap(op)
        /\ ~shortSeen /\ ~overSeen /\ Len(fetched) = target)
        => (pc = "done" /\ nreq = IF op = "get_channel_videos" THEN 2 ELSE 1)

\* a list_calendars call whose only page held the 3 calendars asked for and a
\* continuation token
C21_Witness ==
    /\ op = "list_calendars"
    /\ pc = "done"
    /\ target = 3
    /\ Len(fetched) = 3
    /\ lastTok # None
    /\ nreq = 1
    /\ Len(result.records) = 3

\* C22: list_calendars and the YouTube loops return exactly N records when the
\* pages held N items or more
C22_OverfullCutToTarget ==
    (Returned /\ op \in {"list_calendars"} \cup YouTubeOps /\ target >= 1
        /\ Len(fetched) >= target)
        => Len(result.records) = target

C24_NoRequestOnceTargetReached ==
    (op \in PagedOps /\ target >= 0 /\ pc \in {"wait", "wait_channel"})
        => Len(fetched) < target

\* C25: in the token loops the first request carries no page token, a later
\* request carries the token of the response before it, and no request follows
\* a response without a token
C25_TokenChain ==
    op \in TokenOps
        => /\ (pc = "wait" /\ req.kind = "page") => req.token = lastTok
           /\ (pc \in {"wait", "wait_channel"} /\ firstMeta # 0) => lastTok # None

\* the third request of a list_calendar_events call, carrying the token of the
\* second response
C25_Witness ==
    /\ op = "list_calendar_events"
    /\ pc = "wait"
    /\ nreq = 3
    /\ lastTok = 2
    /\ req.token = 2

\* C26: in web_search a request carries the caller's offset plus the number of
\* items received so far, and remaining_results is total_results minus that
\* number
C26_OffsetAdvancesByItems ==
    op = "web_search"
        => /\ remaining_results = target - Len(fetched)
           /\ pc = "wait" => req.offset = offset + Len(fetched)

\* the second request of a web_search call after a first page of four items
C26_Witness ==
    /\ op = "web_search"
    /\ pc = "wait"
    /\ nreq = 2
    /\ Len(fetched) = 4
    /\ req.offset = offset + 4
    /\ remaining_results = target - 4

\* C27: a web_search call whose requests all succeeded returns a WebResults
C27_SuccessReturnsWebResults ==
    (op = "web_search" /\ count >= 1 /\ target >= 1 /\ pc = "done" /\ ~failed /\ nreq >= 1)
        => result.kind = "ok"

\* C30: get_channel_videos issues a channel lookup before every playlistItems
\* request, so lookups are the odd and page requests the even requests of the
\* call, and each page request names the playlist its own lookup returned
C30_LookupBeforeEveryPage ==
    op = "get_channel_videos"
        => /\ pc = "wait" => (req.kind = "page" /\ req.playlist = lastLookup)
           /\ pc = "wait_channel" => req.kind = "channel"
           /\ nreq < MaxReq =>
                  /\ pc = "wait_channel" => nreq % 2 = 1
                  /\ pc = "wait" => nreq % 2 = 0
                  /\ (pc = "done" /\ ~failed) => nreq % 2 = 0

\* the second page request of a get_channel_videos call, the fourth request of
\* the call, for the playlist the second lookup returned
C30_Witness ==
    /\ op = "get_channel_videos"
    /\ pc = "wait"
    /\ nreq = 4
    /\ Len(fetched) >= 1
    /\ lastLookup = 2
    /\ req.playlist = 2

\* the operations of GoogleCalendarTool
CalendarToolOps == CalendarOps \cup {"create_calendar", "insert_calendar_event"}

\* C28: a GoogleCalendarTool operation called without a service issues no
\* request and returns at once: the list operations the string 'service not
\* created', create_calendar and insert_calendar_event None
C28_NoServiceNoRequest ==
    (op \in CalendarToolOps /\ ~service)
        => /\ pc = "done"
           /\ nreq = 0
           /\ inflight = 0
           /\ result = IF op \in CalendarOps THEN ServiceNotCreated ELSE ReturnedNone

\* list_calendars called without a service for three calendars
C28_Witness ==
    /\ op = "list_calendars"
    /\ ~service
    /\ target = 3
    /\ pc = "done"
    /\ nreq = 0
    /\ result = ServiceNotCreated

\* the default the claim names for each key
DefaultOf(key) ==
    IF key = "is_source_local" THEN FALSE
    ELSE IF key = "sub_type" THEN "generic"
    ELSE ""

\* C29: web_search returns one WebResult for each raw result kept after the cut
\* to total_results, at the same position, every field holding the raw value or,
\* where the raw result lacks the key, the field's default
C29_DefaultFill ==
    (op = "web_search" /\ Returned)
        => LET kept == PySlice(fetched, target) IN
           /\ Len(result.records) = Len(kept)
           /\ \A i \in DOMAIN kept :
                 /\ result.records[i].id = kept[i].id
                 /\ \A key \in WebKeys :
                       result.records[i][key] =
                           IF key \in kept[i].missing THEN DefaultOf(key)
                                                      ELSE Value(kept[i], key)

\* a web_search call that returned a result whose raw form lacked title,
\* is_source_local and sub_type and had the other keys
C29_Witness ==
    /\ op = "web_search"
    /\ Returned
    /\ Len(result.records) >= 2
    /\ fetched[1].missing = {"title", "is_source_local", "sub_type"}
    /\ result.records[1].title = ""
    /\ result.records[1].is_source_local = FALSE
    /\ result.records[1].sub_type = "generic"
    /\ result.records[1].url = "url"

====
